---- MODULE Spec2Model ----
(***************************************************************************)
(* GopalTomar/Health_monitor: the sampling-and-derived-metric engine of    *)
(* the two monitors,                                                       *)
(*   src/system_health_monitor.py  ComprehensiveSystemHealthMonitor (CLI)  *)
(*   src/system_health_01.py       SystemHealthGUI (GUI)                   *)
(*                                                                         *)
(* Abstractions.  time.time() returns an integer number of ticks; a byte   *)
(* counter is a small natural number; Python's true division is exact      *)
(* rational division (a rate is a reduced fraction num/den); a percentage  *)
(* is an integer (cutoffs are integers, so a float classifies as its       *)
(* integer part does for >=, and as its ceiling does for <=).              *)
(***************************************************************************)
EXTENDS Integers, Sequences, FiniteSets, TLC

\* ---------------------------------------------------------------- bounds
MaxCounter == 1
MaxTime == 2
MaxCycles == 2
MaxQueue == 1
MaxValue == 105
MaxSamples == 6
\* the tick at which the GUI is constructed: its prev_time is never stored again,
\* so only the difference of a reading to it matters
GuiStart == 1

\* Python's None, and a local variable that is not bound (yet): an integer
\* outside the range of every reading
None == 0 - 1

Counters == 0..MaxCounter
Times == 0..MaxTime
Values == 0..MaxValue

\* what psutil.disk_io_counters() / psutil.net_io_counters() can return
DiskReadings == [read_bytes : Counters, write_bytes : Counters]
NetReadings == [bytes_sent : Counters, bytes_recv : Counters]

\* ----------------------------------------------------------- arithmetic
Abs(n) == IF n < 0 THEN -n ELSE n

RECURSIVE Gcd(_, _)
Gcd(a, b) == IF b = 0 THEN a ELSE Gcd(b, a % b)

\* the fraction n/d (d > 0) in lowest terms
Rat(n, d) == LET g == Gcd(Abs(n), d) IN [num |-> n \div g, den |-> d \div g]

\* the int 0 of the else branches, as a fraction
Zero == [num |-> 0, den |-> 1]

\* ---------------------------------------------------------- HealthStatus
CRITICAL == "CRITICAL"
WARNING == "WARNING"
CAUTION == "CAUTION"
HEALTHY == "HEALTHY"
UNKNOWN == "UNKNOWN"

COLOR_CRITICAL == "COLOR_CRITICAL"
COLOR_WARNING == "COLOR_WARNING"
COLOR_CAUTION == "COLOR_CAUTION"
COLOR_HEALTHY == "COLOR_HEALTHY"
COLOR_UNKNOWN == "COLOR_UNKNOWN"
COLOR_NEUTRAL == "COLOR_NEUTRAL"

\* ComprehensiveSystemHealthMonitor.THRESHOLDS
THRESHOLDS ==
    [cpu_healthy |-> 30, cpu_caution |-> 60, cpu_warning |-> 80, cpu_critical |-> 90,
     memory_healthy |-> 50, memory_caution |-> 70, memory_warning |-> 85, memory_critical |-> 95,
     disk_healthy |-> 50, disk_caution |-> 70, disk_warning |-> 85, disk_critical |-> 95,
     temp_healthy |-> 50, temp_caution |-> 70, temp_warning |-> 85, temp_critical |-> 100,
     battery_healthy |-> 80, battery_caution |-> 50, battery_warning |-> 20, battery_critical |-> 10,
     disk_io_warning |-> 1000, network_warning |-> 100,
     process_cpu_warning |-> 40, process_memory_warning |-> 30]

\* SystemHealthGUI.THRESHOLDS
GUI_THRESHOLDS ==
    [cpu_critical |-> 90, cpu_warning |-> 80, cpu_caution |-> 60,
     memory_critical |-> 95, memory_warning |-> 85, memory_caution |-> 70,
     disk_critical |-> 95, disk_warning |-> 85, disk_caution |-> 70,
     temp_critical |-> 100, temp_warning |-> 85, temp_caution |-> 70,
     battery_critical |-> 10, battery_warning |-> 20, battery_caution |-> 50]

\* the metric kinds the classifiers are called with
MetricTypes == {"cpu", "memory", "disk", "temperature", "battery", "disk_io", "network"}

\* ascending_band with exclusive boundaries: > where the code has >=
ascending_band_exclusive(value, critical, warning, caution) ==
    IF value > critical THEN <<CRITICAL, COLOR_CRITICAL>>
    ELSE IF value > warning THEN <<WARNING, COLOR_WARNING>>
    ELSE IF value > caution THEN <<CAUTION, COLOR_CAUTION>>
    ELSE <<HEALTHY, COLOR_HEALTHY>>

\* ascending_band whose last test is the battery's: <= caution where the code has >=
ascending_band_caution_below(value, critical, warning, caution) ==
    IF value >= critical THEN <<CRITICAL, COLOR_CRITICAL>>
    ELSE IF value >= warning THEN <<WARNING, COLOR_WARNING>>
    ELSE IF value <= caution THEN <<CAUTION, COLOR_CAUTION>>
    ELSE <<HEALTHY, COLOR_HEALTHY>>

\* the if/elif chain of one ascending kind: >= critical, >= warning, >= caution
ascending_band(value, critical, warning, caution) ==
    IF value >= critical THEN <<CRITICAL, COLOR_CRITICAL>>
    ELSE IF value >= warning THEN <<WARNING, COLOR_WARNING>>
    ELSE IF value >= caution THEN <<CAUTION, COLOR_CAUTION>>
    ELSE <<HEALTHY, COLOR_HEALTHY>>

\* descending_band with exclusive boundaries: < where the code has <=
descending_band_exclusive(value, critical, warning, caution) ==
    IF value < critical THEN <<CRITICAL, COLOR_CRITICAL>>
    ELSE IF value < warning THEN <<WARNING, COLOR_WARNING>>
    ELSE IF value < caution THEN <<CAUTION, COLOR_CAUTION>>
    ELSE <<HEALTHY, COLOR_HEALTHY>>

\* the if/elif chain of the battery: <= critical, <= warning, <= caution
descending_band(value, critical, warning, caution) ==
    IF value <= critical THEN <<CRITICAL, COLOR_CRITICAL>>
    ELSE IF value <= warning THEN <<WARNING, COLOR_WARNING>>
    ELSE IF value <= caution THEN <<CAUTION, COLOR_CAUTION>>
    ELSE <<HEALTHY, COLOR_HEALTHY>>

\* get_status_and_color that answers UNKNOWN for a kind it has no branch for
get_status_and_color_unknown_kind(metric_type, value) ==
    IF value = None THEN <<UNKNOWN, COLOR_UNKNOWN>>
    ELSE IF metric_type = "cpu" THEN
        ascending_band(value, THRESHOLDS.cpu_critical, THRESHOLDS.cpu_warning, THRESHOLDS.cpu_caution)
    ELSE IF metric_type = "memory" THEN
        ascending_band(value, THRESHOLDS.memory_critical, THRESHOLDS.memory_warning, THRESHOLDS.memory_caution)
    ELSE IF metric_type = "disk" THEN
        ascending_band(value, THRESHOLDS.disk_critical, THRESHOLDS.disk_warning, THRESHOLDS.disk_caution)
    ELSE IF metric_type = "temperature" THEN
        ascending_band(value, THRESHOLDS.temp_critical, THRESHOLDS.temp_warning, THRESHOLDS.temp_caution)
    ELSE IF metric_type = "battery" THEN
        descending_band(value, THRESHOLDS.battery_critical, THRESHOLDS.battery_warning, THRESHOLDS.battery_caution)
    ELSE <<UNKNOWN, COLOR_UNKNOWN>>

\* get_status_and_color that applies disk_io_warning and network_warning
get_status_and_color_rate_warning(metric_type, value) ==
    IF value = None THEN <<UNKNOWN, COLOR_UNKNOWN>>
    ELSE IF metric_type = "cpu" THEN
        ascending_band(value, THRESHOLDS.cpu_critical, THRESHOLDS.cpu_warning, THRESHOLDS.cpu_caution)
    ELSE IF metric_type = "memory" THEN
        ascending_band(value, THRESHOLDS.memory_critical, THRESHOLDS.memory_warning, THRESHOLDS.memory_caution)
    ELSE IF metric_type = "disk" THEN
        ascending_band(value, THRESHOLDS.disk_critical, THRESHOLDS.disk_warning, THRESHOLDS.disk_caution)
    ELSE IF metric_type = "temperature" THEN
        ascending_band(value, THRESHOLDS.temp_critical, THRESHOLDS.temp_warning, THRESHOLDS.temp_caution)
    ELSE IF metric_type = "battery" THEN
        descending_band(value, THRESHOLDS.battery_critical, THRESHOLDS.battery_warning, THRESHOLDS.battery_caution)
    ELSE IF metric_type = "disk_io" /\ value >= THRESHOLDS.disk_io_warning THEN <<WARNING, COLOR_WARNING>>
    ELSE IF metric_type = "network" /\ value >= THRESHOLDS.network_warning THEN <<WARNING, COLOR_WARNING>>
    ELSE <<HEALTHY, COLOR_HEALTHY>>

\* ComprehensiveSystemHealthMonitor.get_status_and_color: <<status, color>>
get_status_and_color(metric_type, value) ==
    IF value = None THEN <<UNKNOWN, COLOR_UNKNOWN>>
    ELSE IF metric_type = "cpu" THEN
        ascending_band(value, THRESHOLDS.cpu_critical, THRESHOLDS.cpu_warning, THRESHOLDS.cpu_caution)
    ELSE IF metric_type = "memory" THEN
        ascending_band(value, THRESHOLDS.memory_critical, THRESHOLDS.memory_warning, THRESHOLDS.memory_caution)
    ELSE IF metric_type = "disk" THEN
        ascending_band(value, THRESHOLDS.disk_critical, THRESHOLDS.disk_warning, THRESHOLDS.disk_caution)
    ELSE IF metric_type = "temperature" THEN
        ascending_band(value, THRESHOLDS.temp_critical, THRESHOLDS.temp_warning, THRESHOLDS.temp_caution)
    ELSE IF metric_type = "battery" THEN
        descending_band(value, THRESHOLDS.battery_critical, THRESHOLDS.battery_warning, THRESHOLDS.battery_caution)
    ELSE <<HEALTHY, COLOR_HEALTHY>>

\* SystemHealthGUI.get_status_text: no branch for 'temperature'
get_status_text(metric_type, value) ==
    IF value = None THEN UNKNOWN
    ELSE IF metric_type = "cpu" THEN
        ascending_band(value, GUI_THRESHOLDS.cpu_critical, GUI_THRESHOLDS.cpu_warning, GUI_THRESHOLDS.cpu_caution)[1]
    ELSE IF metric_type = "memory" THEN
        ascending_band(value, GUI_THRESHOLDS.memory_critical, GUI_THRESHOLDS.memory_warning, GUI_THRESHOLDS.memory_caution)[1]
    ELSE IF metric_type = "disk" THEN
        ascending_band(value, GUI_THRESHOLDS.disk_critical, GUI_THRESHOLDS.disk_warning, GUI_THRESHOLDS.disk_caution)[1]
    ELSE IF metric_type = "battery" THEN
        descending_band(value, GUI_THRESHOLDS.battery_critical, GUI_THRESHOLDS.battery_warning, GUI_THRESHOLDS.battery_caution)[1]
    ELSE HEALTHY

\* SystemHealthGUI.get_status_color: the colour of a reading, chosen by its own
\* chain of comparisons
get_status_color(metric_type, value) ==
    IF value = None THEN COLOR_UNKNOWN
    ELSE IF metric_type = "cpu" THEN
        ascending_band(value, GUI_THRESHOLDS.cpu_critical, GUI_THRESHOLDS.cpu_warning, GUI_THRESHOLDS.cpu_caution)[2]
    ELSE IF metric_type = "memory" THEN
        ascending_band(value, GUI_THRESHOLDS.memory_critical, GUI_THRESHOLDS.memory_warning, GUI_THRESHOLDS.memory_caution)[2]
    ELSE IF metric_type = "disk" THEN
        ascending_band(value, GUI_THRESHOLDS.disk_critical, GUI_THRESHOLDS.disk_warning, GUI_THRESHOLDS.disk_caution)[2]
    ELSE IF metric_type = "temperature" THEN
        ascending_band(value, GUI_THRESHOLDS.temp_critical, GUI_THRESHOLDS.temp_warning, GUI_THRESHOLDS.temp_caution)[2]
    ELSE IF metric_type = "battery" THEN
        descending_band(value, GUI_THRESHOLDS.battery_critical, GUI_THRESHOLDS.battery_warning, GUI_THRESHOLDS.battery_caution)[2]
    ELSE COLOR_NEUTRAL

\* ------------------------------------------------------------------ state
VARIABLES
    app,             \* which program runs: "cli" (system_health_monitor.py) or "gui" (system_health_01.py)
    pc,              \* the position of each thread
    prev_disk_io,    \* self.prev_disk_io
    prev_net_io,     \* self.prev_net_io
    prev_time,       \* self.prev_time
    health_history,  \* self.health_history (CLI)
    cycle,           \* the number of sampling cycles started (display_dashboard / update_all_tabs calls)
    cpu, mem, disk, net, battery,   \* the dicts the get_*_metrics calls of the cycle returned
    disk_sample,     \* the locals of the last get_disk_metrics call, with the prior it read
    net_sample,      \* the locals of the last get_network_metrics call, with the prior it read
    status, trend,   \* the *_status and *_trend locals of display_dashboard
    written_in,      \* for prev_disk_io, prev_net_io, prev_time: the cycle that stored it (0: __init__)
    monitoring,      \* self.monitoring (GUI)
    events,          \* the Tk event queue of the GUI: callbacks waiting for the main loop
    destroyed,       \* root.destroy() was called (GUI)
    call             \* the last call of the classifiers: its arguments and what they returned,
                     \* with the value and the results of the call before it

vars == <<app, pc, prev_disk_io, prev_net_io, prev_time, health_history, cycle,
          cpu, mem, disk, net, battery, disk_sample, net_sample, status, trend,
          written_in, monitoring, events, destroyed, call>>

engine == <<prev_disk_io, prev_net_io, prev_time, health_history, written_in>>
locals == <<cpu, mem, disk, net, battery, disk_sample, net_sample, status, trend>>
gui_vars == <<monitoring, events, destroyed>>

Threads == {"main", "monitor"}

\* locals that are not bound: no call has returned them (yet); each has the shape
\* of the value it will be bound to, with None (and the fraction 0/0, the empty
\* string) where the readings, the rates and the verdicts will be
NoRate == [num |-> 0, den |-> 0]
NoDiskSample == [prior |-> [read_bytes |-> None, write_bytes |-> None],
                 current |-> [read_bytes |-> None, write_bytes |-> None],
                 current_time |-> None, time_delta |-> None, prior_cycle |-> None]
NoNetSample == [prior |-> [bytes_sent |-> None, bytes_recv |-> None],
                current |-> [bytes_sent |-> None, bytes_recv |-> None],
                current_time |-> None, time_delta |-> None, prior_cycle |-> None]
NoCpu == [average |-> None, temperature |-> None]
NoMem == [percent |-> None]
NoDisk == [percent |-> None, read_speed |-> NoRate, write_speed |-> NoRate]
NoNet == [upload_speed |-> NoRate, download_speed |-> NoRate]
NoBattery == [percent |-> None]
NotBound == ""
NoStatus == [cpu |-> NotBound, temperature |-> NotBound, memory |-> NotBound, disk |-> NotBound,
             battery |-> NotBound]
NoTrend == [cpu |-> NotBound, temperature |-> NotBound, memory |-> NotBound, disk |-> NotBound]
NoCall == [metric_type |-> "", value |-> None, status_and_color |-> <<"", "">>, status_text |-> "",
           status_color |-> "", trend |-> "",
           earlier_value |-> None, earlier_status_and_color |-> <<"", "">>, earlier_status_text |-> "",
           earlier_status_color |-> ""]

\* the arguments of a call, before the classifiers have returned
Pending(metric_type, value) ==
    [metric_type |-> metric_type, value |-> value,
     status_and_color |-> <<"", "">>, status_text |-> "", status_color |-> "", trend |-> "",
     earlier_value |-> None, earlier_status_and_color |-> <<"", "">>, earlier_status_text |-> "",
     earlier_status_color |-> ""]

\* ------------------------------------------------------- Rate Calculator
\* speed without the division: the bytes of the cycle, not bytes per second
speed_not_divided(current, previous, time_delta) ==
    IF time_delta > 0 THEN Rat(current - previous, 1) ELSE Zero

\* speed guarded by time_delta != 0 in place of time_delta > 0
speed_guard_nonzero(current, previous, time_delta) ==
    IF time_delta > 0 THEN Rat(current - previous, time_delta)
    ELSE IF time_delta < 0 THEN Rat(previous - current, 0 - time_delta)
    ELSE Zero

\* (current - previous) / time_delta if time_delta > 0 else 0
speed(current, previous, time_delta) ==
    IF time_delta > 0 THEN Rat(current - previous, time_delta) ELSE Zero

\* ---------------------------------------------------------- Trend Tracker
history_max == 5

RECURSIVE sum(_)
sum(s) == IF s = <<>> THEN 0 ELSE s[1] + sum(Tail(s))

\* history[-3:]
last3(history) ==
    IF Len(history) <= 3 THEN history ELSE SubSeq(history, Len(history) - 2, Len(history))

min(a, b) == IF a < b THEN a ELSE b

\* ---- the double arithmetic of sum(history[-3:]) / min(3, len(history)) * 1.1
\* A double is mantissa * 2^exponent with a mantissa of 53 bits, and the product
\* of two mantissas has 106: a natural number of any size is the sequence of
\* its digits to the base 4096, the lowest first.
Base == 4096

RECURSIVE BigMulSmall(_, _, _)
\* a * k + carry, for k < Base
BigMulSmall(a, k, carry) ==
    IF a = <<>>
    THEN IF carry = 0 THEN <<>> ELSE <<carry % Base>> \o BigMulSmall(<<>>, k, carry \div Base)
    ELSE LET v == Head(a) * k + carry
         IN  <<v % Base>> \o BigMulSmall(Tail(a), k, v \div Base)

RECURSIVE BigAdd(_, _, _)
BigAdd(a, b, carry) ==
    IF a = <<>> /\ b = <<>>
    THEN IF carry = 0 THEN <<>> ELSE <<carry>>
    ELSE LET x == IF a = <<>> THEN 0 ELSE Head(a)
             y == IF b = <<>> THEN 0 ELSE Head(b)
             v == x + y + carry
         IN  <<v % Base>> \o BigAdd(IF a = <<>> THEN <<>> ELSE Tail(a),
                                    IF b = <<>> THEN <<>> ELSE Tail(b), v \div Base)

RECURSIVE BigMul(_, _)
BigMul(a, b) ==
    IF b = <<>> THEN <<>>
    ELSE BigAdd(BigMulSmall(a, Head(b), 0), <<0>> \o BigMul(a, Tail(b)), 0)

RECURSIVE BigShl(_, _)
\* a * 2^bits
BigShl(a, bits) ==
    IF bits >= 12 THEN <<0>> \o BigShl(a, bits - 12) ELSE BigMulSmall(a, 2 ^ bits, 0)

RECURSIVE BigDivRem(_, _)
\* the quotient and the remainder of a by d, for d < Base
BigDivRem(a, d) ==
    IF a = <<>> THEN [q |-> <<>>, r |-> 0]
    ELSE LET hi == BigDivRem(Tail(a), d)
             v == hi.r * Base + Head(a)
         IN  [q |-> <<v \div d>> \o hi.q, r |-> v % d]

\* a / d rounded to the nearest integer, a tie to the even one
BigDivRound(a, d) ==
    LET qr == BigDivRem(a, d)
        odd == qr.q # <<>> /\ Head(qr.q) % 2 = 1
    IN  IF 2 * qr.r > d \/ (2 * qr.r = d /\ odd) THEN BigAdd(qr.q, <<1>>, 0) ELSE qr.q

RECURSIVE BigCmp(_, _)
\* -1, 0, 1 as a is less than, equal to, greater than b
BigCmp(a, b) ==
    IF a = <<>> /\ b = <<>> THEN 0
    ELSE LET x == IF a = <<>> THEN 0 ELSE Head(a)
             y == IF b = <<>> THEN 0 ELSE Head(b)
             hi == BigCmp(IF a = <<>> THEN <<>> ELSE Tail(a), IF b = <<>> THEN <<>> ELSE Tail(b))
         IN  IF hi # 0 THEN hi ELSE IF x < y THEN 0 - 1 ELSE IF x > y THEN 1 ELSE 0

\* the exponent k of a quotient s / n >= 1/4: 2^k <= s / n < 2^(k+1)
QuotientExponent(s, n) ==
    (CHOOSE k \in 0..24 : n * 2 ^ k <= 4 * s /\ 4 * s < n * 2 ^ (k + 1)) - 2

\* the exponent e of an integer c >= 1: 2^e <= c < 2^(e+1)
IntExponent(c) == CHOOSE e \in 0..24 : 2 ^ e <= c /\ c < 2 ^ (e + 1)

\* the literals 1.1 and 0.9 as doubles: 1.1 is 0x1199999999999A * 2^-52 and
\* 0.9 is 0x1CCCCCCCCCCCCD * 2^-53, both a little more than the decimal
Mantissa11 == <<2458, 2457, 2457, 2457, 17>>
Mantissa09 == <<3277, 3276, 3276, 3276, 28>>

\* avg_recent = s / n as a double: its mantissa, for the exponent t
\* (avg_recent = mantissa * 2^-t), rounded to nearest
AvgMantissa(s, n) == BigDivRound(BigShl(<<s>>, 52 - QuotientExponent(s, n)), n)

\* current_value > avg_recent * 1.1, all three doubles, the product rounded to
\* nearest: it is less than the integer current_value when the exact product is
\* less than the midpoint between current_value and the double before it
\* (a tie rounds to current_value, whose mantissa is even). Off the edge of the
\* band the exact product 11 s / 10 n is at least 1 / 30 away from the integer
\* current_value, the three roundings move it by less than 2^-40, and the
\* comparison is the exact one.
float_greater(current_value, s, n) ==
    IF 10 * n * current_value # 11 * s THEN 10 * n * current_value > 11 * s
    ELSE IF s = 0 THEN current_value > 0
    ELSE IF current_value <= 0 THEN FALSE
    ELSE LET t == 52 - QuotientExponent(s, n)
             w == t + 52
             e == IntExponent(current_value)
             half == w + e - 53 - (IF current_value = 2 ^ e THEN 1 ELSE 0)
             product == BigMul(AvgMantissa(s, n), Mantissa11)
         IN  BigCmp(BigAdd(product, BigShl(<<1>>, half), 0), BigShl(<<current_value>>, w)) < 0

\* current_value < avg_recent * 0.9: the rounded product is more than
\* current_value when the exact product is more than the midpoint between
\* current_value and the double after it; off the edge the comparison is the
\* exact one, as above
float_less(current_value, s, n) ==
    IF 10 * n * current_value # 9 * s THEN 10 * n * current_value < 9 * s
    ELSE IF s = 0 THEN FALSE
    ELSE LET t == 52 - QuotientExponent(s, n)
             w == t + 53
             product == BigMul(AvgMantissa(s, n), Mantissa09)
         IN  IF current_value <= 0 THEN TRUE
             ELSE LET e == IntExponent(current_value)
                  IN  BigCmp(product,
                             BigAdd(BigShl(<<current_value>>, w), BigShl(<<1>>, w + e - 53), 0)) > 0

\* analyze_trend that asks for one sample only: len(history) < 1
analyze_trend_one_sample(history, current_value) ==
    IF current_value = None THEN "No data"
    ELSE IF Len(history) < 1 THEN "Insufficient data"
    ELSE LET s == sum(last3(history))
             n == min(3, Len(history))
         IN  IF float_greater(current_value, s, n) THEN "Increasing"
             ELSE IF float_less(current_value, s, n) THEN "Decreasing"
             ELSE "Stable"

\* analyze_trend that asks for three samples: len(history) < 3
analyze_trend_three_samples(history, current_value) ==
    IF current_value = None THEN "No data"
    ELSE IF Len(history) < 3 THEN "Insufficient data"
    ELSE LET s == sum(last3(history))
             n == min(3, Len(history))
         IN  IF float_greater(current_value, s, n) THEN "Increasing"
             ELSE IF float_less(current_value, s, n) THEN "Decreasing"
             ELSE "Stable"

\* analyze_trend that looks at the length of the history before it looks at the value
analyze_trend_length_first(history, current_value) ==
    IF Len(history) < 2 THEN "Insufficient data"
    ELSE IF current_value = None THEN "No data"
    ELSE LET s == sum(last3(history))
             n == min(3, Len(history))
         IN  IF float_greater(current_value, s, n) THEN "Increasing"
             ELSE IF float_less(current_value, s, n) THEN "Decreasing"
             ELSE "Stable"

\* analyze_trend with a deadband of 20%: avg_recent * 1.2
analyze_trend_wide_band(history, current_value) ==
    IF current_value = None THEN "No data"
    ELSE IF Len(history) < 2 THEN "Insufficient data"
    ELSE LET s == sum(last3(history))
             n == min(3, Len(history))
         IN  IF 10 * n * current_value > 12 * s THEN "Increasing"
             ELSE IF float_less(current_value, s, n) THEN "Decreasing"
             ELSE "Stable"

\* ComprehensiveSystemHealthMonitor.analyze_trend, on self.health_history[metric_type] = history;
\* avg_recent = s / n, and both comparisons are comparisons of doubles: at the
\* edge of the band the rounded product can fall on the other side of
\* current_value than the exact one
analyze_trend(history, current_value) ==
    IF current_value = None THEN "No data"
    ELSE IF Len(history) < 2 THEN "Insufficient data"
    ELSE LET s == sum(last3(history))
             n == min(3, Len(history))
         IN  IF float_greater(current_value, s, n) THEN "Increasing"
             ELSE IF float_less(current_value, s, n) THEN "Decreasing"
             ELSE "Stable"

\* append_history without the pop: the list grows with every sample
append_history_unbounded(history, value) == Append(history, value)

\* append_history that starts the window afresh when it is full
append_history_restart(history, value) ==
    LET h == Append(history, value)
    IN  IF Len(h) > history_max THEN <<value>> ELSE h

\* append_history whose pop takes the newest entry: history.pop()
append_history_pop_last(history, value) ==
    LET h == Append(history, value)
    IN  IF Len(h) > history_max THEN SubSeq(h, 1, Len(h) - 1) ELSE h

\* history.append(value); if len(history) > self.history_max: history.pop(0)
append_history(history, value) ==
    LET h == Append(history, value)
    IN  IF Len(h) > history_max THEN Tail(h) ELSE h

\* ------------------------------------------------------------ CLI monitor
\* ComprehensiveSystemHealthMonitor.__init__
InitCLI ==
    /\ app = "cli"
    /\ pc = [th \in Threads |-> IF th = "main" THEN "run" ELSE "none"]
    /\ prev_disk_io \in DiskReadings
    /\ prev_net_io \in NetReadings
    /\ prev_time \in Times
    /\ health_history = [cpu |-> <<>>, memory |-> <<>>, disk |-> <<>>, temperature |-> <<>>]
    /\ cycle = 0
    /\ cpu = NoCpu /\ mem = NoMem /\ disk = NoDisk /\ net = NoNet /\ battery = NoBattery
    /\ disk_sample = NoDiskSample /\ net_sample = NoNetSample
    /\ status = NoStatus /\ trend = NoTrend
    /\ written_in = [disk |-> 0, net |-> 0, time |-> 0]
    /\ monitoring = FALSE /\ events = <<>> /\ destroyed = FALSE
    /\ call = NoCall

\* run: the while True loop calls display_dashboard, whose locals are fresh
\* (limit cuts the run off after that many cycles)
run_cycle(limit) ==
    /\ app = "cli" /\ pc["main"] = "run"
    /\ cycle < limit
    /\ cycle' = cycle + 1
    /\ pc' = [pc EXCEPT !["main"] = "get_cpu_metrics"]
    /\ cpu' = NoCpu /\ mem' = NoMem /\ disk' = NoDisk /\ net' = NoNet /\ battery' = NoBattery
    /\ disk_sample' = NoDiskSample /\ net_sample' = NoNetSample
    /\ status' = NoStatus /\ trend' = NoTrend
    /\ UNCHANGED <<app, call, engine, gui_vars>>

run == run_cycle(MaxCycles)

\* get_cpu_metrics that appends the temperature without looking at it
get_cpu_metrics_appends_absent(cpu_avg, temp) ==
    /\ app = "cli" /\ pc["main"] = "get_cpu_metrics"
    /\ health_history' =
          [health_history EXCEPT
              !.cpu = append_history(@, cpu_avg),
              !.temperature = append_history(@, temp)]
    /\ cpu' = [average |-> cpu_avg, temperature |-> temp]
    /\ pc' = [pc EXCEPT !["main"] = "get_memory_metrics"]
    /\ UNCHANGED <<app, call, prev_disk_io, prev_net_io, prev_time, written_in, cycle,
                   mem, disk, net, battery, disk_sample, net_sample, status, trend, gui_vars>>

\* get_cpu_metrics, with get_cpu_temperature: cpu_avg and temp are what psutil returned
get_cpu_metrics(cpu_avg, temp) ==
    /\ app = "cli" /\ pc["main"] = "get_cpu_metrics"
    /\ health_history' =
          [health_history EXCEPT
              !.cpu = append_history(@, cpu_avg),
              !.temperature = IF temp # None THEN append_history(@, temp) ELSE @]
    /\ cpu' = [average |-> cpu_avg, temperature |-> temp]
    /\ pc' = [pc EXCEPT !["main"] = "get_memory_metrics"]
    /\ UNCHANGED <<app, call, prev_disk_io, prev_net_io, prev_time, written_in, cycle,
                   mem, disk, net, battery, disk_sample, net_sample, status, trend, gui_vars>>

\* get_memory_metrics that keeps one window for the loads: the memory reading
\* goes into the cpu window as well
get_memory_metrics_shared(percent) ==
    /\ app = "cli" /\ pc["main"] = "get_memory_metrics"
    /\ health_history' = [health_history EXCEPT !.memory = append_history(@, percent),
                                                !.cpu = append_history(@, percent)]
    /\ mem' = [percent |-> percent]
    /\ pc' = [pc EXCEPT !["main"] = "get_disk_metrics"]
    /\ UNCHANGED <<app, call, prev_disk_io, prev_net_io, prev_time, written_in, cycle,
                   cpu, disk, net, battery, disk_sample, net_sample, status, trend, gui_vars>>

\* get_memory_metrics
get_memory_metrics(percent) ==
    /\ app = "cli" /\ pc["main"] = "get_memory_metrics"
    /\ health_history' = [health_history EXCEPT !.memory = append_history(@, percent)]
    /\ mem' = [percent |-> percent]
    /\ pc' = [pc EXCEPT !["main"] = "get_disk_metrics"]
    /\ UNCHANGED <<app, call, prev_disk_io, prev_net_io, prev_time, written_in, cycle,
                   cpu, disk, net, battery, disk_sample, net_sample, status, trend, gui_vars>>

\* get_disk_metrics: percent, current_disk_io and current_time are what
\* psutil.disk_usage, psutil.disk_io_counters and time.time returned
get_disk_metrics(percent, current_disk_io, current_time) ==
    /\ app = "cli" /\ pc["main"] = "get_disk_metrics"
    /\ LET time_delta == current_time - prev_time
       IN  /\ disk' = [percent |-> percent,
                       read_speed |-> speed(current_disk_io.read_bytes, prev_disk_io.read_bytes, time_delta),
                       write_speed |-> speed(current_disk_io.write_bytes, prev_disk_io.write_bytes, time_delta)]
           /\ disk_sample' = [prior |-> prev_disk_io, current |-> current_disk_io,
                              current_time |-> current_time, time_delta |-> time_delta,
                              prior_cycle |-> written_in.disk]
    /\ prev_disk_io' = current_disk_io
    /\ written_in' = [written_in EXCEPT !.disk = cycle]
    /\ health_history' = [health_history EXCEPT !.disk = append_history(@, percent)]
    /\ pc' = [pc EXCEPT !["main"] = "get_network_metrics"]
    /\ UNCHANGED <<app, call, prev_net_io, prev_time, cycle, cpu, mem, net, battery,
                   net_sample, status, trend, gui_vars>>

\* get_network_metrics
get_network_metrics(current_net_io, current_time) ==
    /\ app = "cli" /\ pc["main"] = "get_network_metrics"
    /\ LET time_delta == current_time - prev_time
       IN  /\ net' = [upload_speed |-> speed(current_net_io.bytes_sent, prev_net_io.bytes_sent, time_delta),
                      download_speed |-> speed(current_net_io.bytes_recv, prev_net_io.bytes_recv, time_delta)]
           /\ net_sample' = [prior |-> prev_net_io, current |-> current_net_io,
                             current_time |-> current_time, time_delta |-> time_delta,
                             prior_cycle |-> written_in.net]
    /\ prev_net_io' = current_net_io
    /\ written_in' = [written_in EXCEPT !.net = cycle]
    /\ pc' = [pc EXCEPT !["main"] = "get_battery_metrics"]
    /\ UNCHANGED <<app, call, prev_disk_io, prev_time, health_history, cycle, cpu, mem, disk, battery,
                   disk_sample, status, trend, gui_vars>>

\* get_battery_metrics: percent is None when there is no battery
get_battery_metrics(percent) ==
    /\ app = "cli" /\ pc["main"] = "get_battery_metrics"
    /\ battery' = [percent |-> percent]
    /\ pc' = [pc EXCEPT !["main"] = "display_dashboard"]
    /\ UNCHANGED <<app, call, engine, cycle, cpu, mem, disk, net, disk_sample, net_sample,
                   status, trend, gui_vars>>

\* display_dashboard after the collection: self.prev_time = time.time() (now is
\* what it returned), then the sections classify and analyse each metric
display_dashboard(now) ==
    /\ app = "cli" /\ pc["main"] = "display_dashboard"
    /\ prev_time' = now
    /\ written_in' = [written_in EXCEPT !.time = cycle]
    /\ status' = [cpu |-> get_status_and_color("cpu", cpu.average)[1],
                  temperature |-> IF cpu.temperature # None
                                  THEN get_status_and_color("temperature", cpu.temperature)[1]
                                  ELSE NotBound,
                  memory |-> get_status_and_color("memory", mem.percent)[1],
                  disk |-> get_status_and_color("disk", disk.percent)[1],
                  battery |-> IF battery.percent # None
                              THEN get_status_and_color("battery", battery.percent)[1]
                              ELSE NotBound]
    /\ trend' = [cpu |-> analyze_trend(health_history.cpu, cpu.average),
                 temperature |-> IF cpu.temperature # None
                                 THEN analyze_trend(health_history.temperature, cpu.temperature)
                                 ELSE NotBound,
                 memory |-> analyze_trend(health_history.memory, mem.percent),
                 disk |-> analyze_trend(health_history.disk, disk.percent)]
    /\ pc' = [pc EXCEPT !["main"] = "sleep"]
    /\ UNCHANGED <<app, call, prev_disk_io, prev_net_io, health_history, cycle,
                   cpu, mem, disk, net, battery, disk_sample, net_sample, gui_vars>>

\* run: time.sleep(self.interval), then the next iteration
sleep ==
    /\ app = "cli" /\ pc["main"] = "sleep"
    /\ pc' = [pc EXCEPT !["main"] = "run"]
    /\ UNCHANGED <<app, call, engine, cycle, locals, gui_vars>>

\* the readings of a run that watches the rates: a steady load, a temperature sensor
RateLoad == {50}
RateTemps == {50}
RateBattery == {8}

\* the wall clock may be set back (or run on) while the loop sleeps; between two
\* readings of one cycle it stands still or moves on by one tick
Later(t) == {t, t + 1} \cap Times

NextCLI ==
    \/ run
    \/ \E v \in RateLoad, t \in RateTemps : get_cpu_metrics(v, t)
    \/ \E v \in RateLoad : get_memory_metrics(v)
    \/ \E v \in RateLoad, io \in DiskReadings, t \in Times : get_disk_metrics(v, io, t)
    \/ \E io \in NetReadings, t \in Times :
           /\ pc["main"] = "get_network_metrics"
           /\ t \in Later(disk_sample.current_time)
           /\ get_network_metrics(io, t)
    \/ \E v \in RateBattery : get_battery_metrics(v)
    \/ \E t \in Times :
           /\ pc["main"] = "display_dashboard"
           /\ t \in Later(net_sample.current_time)
           /\ display_dashboard(t)
    \/ sleep

SpecCLI == InitCLI /\ [][NextCLI]_vars

\* ------------------------------------------------- CLI monitor, its trends
\* the readings of a run that watches the trends: a load that varies, a
\* temperature sensor that is there or not, no traffic and a clock too coarse
\* to see the run
TrendLoad == {50, 55, 58, 70}
TrendTemps == {None, 60}
Steady == {50}
NoTraffic == [read_bytes |-> 0, write_bytes |-> 0]
NoPackets == [bytes_sent |-> 0, bytes_recv |-> 0]

\* ComprehensiveSystemHealthMonitor.__init__ on a machine without traffic
InitTrend ==
    /\ InitCLI
    /\ prev_disk_io = NoTraffic
    /\ prev_net_io = NoPackets
    /\ prev_time = 0

\* a call of get_status_and_color and of analyze_trend from outside display_dashboard,
\* between two cycles
analyze(metric_type, value) ==
    /\ app = "cli" /\ pc["main"] = "sleep"
    /\ call = NoCall
    /\ call' = [Pending(metric_type, value) EXCEPT
                  !.status_and_color = get_status_and_color(metric_type, value),
                  !.status_text = get_status_text(metric_type, value),
                  !.status_color = get_status_color(metric_type, value),
                  !.trend = analyze_trend(health_history[metric_type], value)]
    /\ UNCHANGED <<app, pc, engine, cycle, locals, gui_vars>>

\* the caller drops what analyze returned
forget ==
    /\ app = "cli" /\ pc["main"] = "sleep"
    /\ call # NoCall
    /\ call' = NoCall
    /\ UNCHANGED <<app, pc, engine, cycle, locals, gui_vars>>

NextTrend ==
    \/ run_cycle(MaxSamples) /\ call = NoCall
    \/ \E v \in TrendLoad, t \in TrendTemps : get_cpu_metrics(v, t)
    \/ \E v \in Steady : get_memory_metrics(v)
    \/ \E v \in Steady : get_disk_metrics(v, NoTraffic, 0)
    \/ get_network_metrics(NoPackets, 0)
    \/ \E v \in RateBattery : get_battery_metrics(v)
    \/ display_dashboard(0)
    \/ sleep /\ call = NoCall
    \/ analyze("temperature", None)
    \/ forget

SpecTrend == InitTrend /\ [][NextTrend]_vars

\* ------------------------------------------------ CLI monitor, its windows
\* the readings of a run that watches the windows: each of the three loads
\* takes two values, the sensor and the counters stand still
WindowLoad == {50, 70}
WindowMemory == {40, 80}
WindowDisk == {30, 90}

NextWindows ==
    \/ run_cycle(MaxSamples)
    \/ \E v \in WindowLoad, t \in RateTemps : get_cpu_metrics(v, t)
    \/ \E v \in WindowMemory : get_memory_metrics(v)
    \/ \E v \in WindowDisk : get_disk_metrics(v, NoTraffic, 0)
    \/ get_network_metrics(NoPackets, 0)
    \/ \E v \in RateBattery : get_battery_metrics(v)
    \/ display_dashboard(0)
    \/ sleep

SpecWindows == InitTrend /\ [][NextWindows]_vars

\* ------------------------------------- CLI monitor, the edges of its deadband
\* the CPU readings of a run that reaches the edges of the band: 11 after 9 is
\* 1.1 times their mean, 9 after 11 is 0.9 times it, and 15 after 0 and 35 is
\* 0.9 times the mean 50 / 3 of the three
DeadbandLoad == {0, 9, 11, 15, 35}

NextDeadband ==
    \/ run_cycle(MaxSamples)
    \/ \E v \in DeadbandLoad, t \in RateTemps : get_cpu_metrics(v, t)
    \/ \E v \in Steady : get_memory_metrics(v)
    \/ \E v \in Steady : get_disk_metrics(v, NoTraffic, 0)
    \/ get_network_metrics(NoPackets, 0)
    \/ \E v \in RateBattery : get_battery_metrics(v)
    \/ display_dashboard(0)
    \/ sleep

SpecDeadband == InitTrend /\ [][NextDeadband]_vars

\* ------------------------------------------------------------ GUI monitor
\* SystemHealthGUI.__init__, up to the call of start_monitoring
InitGUI ==
    /\ app = "gui"
    /\ pc = [th \in Threads |-> IF th = "main" THEN "start_monitoring" ELSE "none"]
    /\ prev_disk_io \in DiskReadings
    /\ prev_net_io \in NetReadings
    /\ prev_time = GuiStart
    /\ health_history = [cpu |-> <<>>, memory |-> <<>>, disk |-> <<>>, temperature |-> <<>>]
    /\ cycle = 0
    /\ cpu = NoCpu /\ mem = NoMem /\ disk = NoDisk /\ net = NoNet /\ battery = NoBattery
    /\ disk_sample = NoDiskSample /\ net_sample = NoNetSample
    /\ status = NoStatus /\ trend = NoTrend
    /\ written_in = [disk |-> 0, net |-> 0, time |-> 0]
    /\ monitoring = FALSE /\ events = <<>> /\ destroyed = FALSE
    /\ call = NoCall

\* the positions of a thread that is inside update_all_tabs
InCycle == {"update_overview", "update_overview_net", "update_disk_tab", "update_network_tab"}

\* the call of update_all_tabs by thread th: a sampling cycle starts
update_all_tabs(th) ==
    /\ cycle < MaxCycles
    /\ cycle' = cycle + 1
    /\ pc' = [pc EXCEPT ![th] = "update_overview"]

\* start_monitoring: start the monitor thread, then update_all_tabs()
start_monitoring ==
    /\ app = "gui" /\ pc["main"] = "start_monitoring"
    /\ cycle < MaxCycles
    /\ cycle' = cycle + 1
    /\ pc' = [pc EXCEPT !["main"] = "update_overview", !["monitor"] = "monitor_loop"]
    /\ UNCHANGED <<app, call, engine, locals, gui_vars>>

\* SystemHealthGUI.get_disk_metrics, called by update_overview, by update_disk_tab
\* and by _save_dashboard_image
gui_get_disk_metrics(th, percent, current_disk_io, current_time) ==
    /\ app = "gui" /\ pc[th] \in {"update_overview", "update_disk_tab", "save_dashboard_image"}
    /\ LET time_delta == current_time - prev_time
       IN  /\ disk' = [percent |-> percent,
                       read_speed |-> speed(current_disk_io.read_bytes, prev_disk_io.read_bytes, time_delta),
                       write_speed |-> speed(current_disk_io.write_bytes, prev_disk_io.write_bytes, time_delta)]
           /\ disk_sample' = [prior |-> prev_disk_io, current |-> current_disk_io,
                              current_time |-> current_time, time_delta |-> time_delta,
                              prior_cycle |-> written_in.disk]
    /\ prev_disk_io' = current_disk_io
    /\ written_in' = [written_in EXCEPT !.disk = cycle]
    /\ net' = NoNet /\ net_sample' = NoNetSample
    /\ pc' = [pc EXCEPT ![th] = IF pc[th] = "update_overview" THEN "update_overview_net"
                                ELSE IF pc[th] = "update_disk_tab" THEN "update_network_tab"
                                ELSE "save_dashboard_image_net"]
    /\ UNCHANGED <<app, call, prev_net_io, prev_time, health_history, cycle, cpu, mem, battery,
                   status, trend, gui_vars>>

\* where update_all_tabs returns to
Return(th) == IF th = "main" THEN "mainloop" ELSE "sleep"

\* SystemHealthGUI.get_network_metrics, called by update_overview and by
\* update_network_tab, after which update_all_tabs touches no engine state and
\* returns, and by _save_dashboard_image, which then draws the image and returns
gui_get_network_metrics(th, current_net_io, current_time) ==
    /\ app = "gui"
    /\ pc[th] \in {"update_overview_net", "update_network_tab", "save_dashboard_image_net"}
    /\ LET time_delta == current_time - prev_time
       IN  /\ net' = [upload_speed |-> speed(current_net_io.bytes_sent, prev_net_io.bytes_sent, time_delta),
                      download_speed |-> speed(current_net_io.bytes_recv, prev_net_io.bytes_recv, time_delta)]
           /\ net_sample' = [prior |-> prev_net_io, current |-> current_net_io,
                             current_time |-> current_time, time_delta |-> time_delta,
                             prior_cycle |-> written_in.net]
    /\ prev_net_io' = current_net_io
    /\ written_in' = [written_in EXCEPT !.net = cycle]
    /\ disk' = NoDisk /\ disk_sample' = NoDiskSample
    /\ pc' = [pc EXCEPT ![th] = IF pc[th] = "update_overview_net" THEN "update_disk_tab"
                                ELSE Return(th)]
    /\ UNCHANGED <<app, call, prev_disk_io, prev_time, health_history, cycle, cpu, mem, battery,
                   status, trend, gui_vars>>

\* the main loop runs the first callback that root.after queued
run_callback ==
    /\ app = "gui" /\ pc["main"] = "mainloop" /\ ~destroyed
    /\ events # <<>>
    /\ Head(events) = "update_all_tabs"
    /\ events' = Tail(events)
    /\ update_all_tabs("main")
    /\ UNCHANGED <<app, call, engine, locals, monitoring, destroyed>>

\* force_refresh: the Refresh button
force_refresh ==
    /\ app = "gui" /\ pc["main"] = "mainloop" /\ ~destroyed
    /\ update_all_tabs("main")
    /\ UNCHANGED <<app, call, engine, locals, gui_vars>>

\* on_closing: WM_DELETE_WINDOW
on_closing ==
    /\ app = "gui" /\ pc["main"] = "mainloop" /\ ~destroyed
    /\ monitoring' = FALSE
    /\ destroyed' = TRUE
    /\ pc' = [pc EXCEPT !["main"] = "closed"]
    /\ UNCHANGED <<app, call, engine, locals, cycle, events>>

\* monitor_loop, first statement: self.monitoring = True
monitor_loop ==
    /\ app = "gui" /\ pc["monitor"] = "monitor_loop"
    /\ monitoring' = TRUE
    /\ pc' = [pc EXCEPT !["monitor"] = "while"]
    /\ UNCHANGED <<app, call, engine, locals, cycle, events, destroyed>>

\* monitor_loop: while self.monitoring
monitor_loop_while ==
    /\ app = "gui" /\ pc["monitor"] = "while"
    /\ pc' = [pc EXCEPT !["monitor"] = IF monitoring THEN "try" ELSE "done"]
    /\ UNCHANGED <<app, call, engine, locals, cycle, gui_vars>>

\* monitor_loop that calls self.update_all_tabs() itself, on the monitor thread
monitor_loop_calls_directly ==
    /\ app = "gui" /\ pc["monitor"] = "try"
    /\ IF destroyed
       THEN /\ pc' = [pc EXCEPT !["monitor"] = "done"]
            /\ UNCHANGED cycle
       ELSE update_all_tabs("monitor")
    /\ UNCHANGED <<app, call, engine, locals, gui_vars>>

\* monitor_loop whose root.after does not raise on a destroyed root: the call is
\* dropped and the thread goes to sleep
monitor_loop_after_no_raise ==
    /\ app = "gui" /\ pc["monitor"] = "try"
    /\ IF destroyed
       THEN /\ pc' = [pc EXCEPT !["monitor"] = "sleep"]
            /\ UNCHANGED events
       ELSE /\ Len(events) < MaxQueue
            /\ events' = Append(events, "update_all_tabs")
            /\ pc' = [pc EXCEPT !["monitor"] = "sleep"]
    /\ UNCHANGED <<app, call, engine, locals, cycle, monitoring, destroyed>>

\* monitor_loop, the try block: root.after(0, self.update_all_tabs) queues the cycle
\* for the main loop (the second root.after queues a change of the status label,
\* which touches no engine state and is left out); on a destroyed root the call
\* raises, and the except branch breaks out of the loop
monitor_loop_after ==
    /\ app = "gui" /\ pc["monitor"] = "try"
    /\ IF destroyed
       THEN /\ pc' = [pc EXCEPT !["monitor"] = "done"]
            /\ UNCHANGED events
       ELSE /\ Len(events) < MaxQueue
            /\ events' = Append(events, "update_all_tabs")
            /\ pc' = [pc EXCEPT !["monitor"] = "sleep"]
    /\ UNCHANGED <<app, call, engine, locals, cycle, monitoring, destroyed>>

\* monitor_loop: time.sleep(15) returns
monitor_loop_sleep ==
    /\ app = "gui" /\ pc["monitor"] = "sleep"
    /\ pc' = [pc EXCEPT !["monitor"] = "while"]
    /\ UNCHANGED <<app, call, engine, locals, cycle, gui_vars>>

NextGUI ==
    \/ start_monitoring
    \/ \E th \in Threads, v \in RateLoad, io \in DiskReadings, t \in Times :
           /\ pc[th] = "update_overview"
           /\ gui_get_disk_metrics(th, v, io, t)
    \/ \E th \in Threads, v \in RateLoad, io \in DiskReadings, t \in Times :
           /\ pc[th] = "update_disk_tab"
           /\ t \in Later(net_sample.current_time)
           /\ gui_get_disk_metrics(th, v, io, t)
    \/ \E th \in Threads, io \in NetReadings, t \in Times :
           /\ pc[th] \in {"update_overview_net", "update_network_tab"}
           /\ t \in Later(disk_sample.current_time)
           /\ gui_get_network_metrics(th, io, t)
    \/ run_callback
    \/ force_refresh
    \/ on_closing
    \/ monitor_loop
    \/ monitor_loop_while
    \/ monitor_loop_after
    \/ monitor_loop_sleep

SpecGUI == InitGUI /\ [][NextGUI]_vars

\* --------------------------------------------------- GUI monitor, its exports
\* export_to_jpeg and export_to_png, the File menu: with a file chosen in the
\* dialog, _save_dashboard_image is called; without one nothing happens
export_to_image(file_path) ==
    /\ app = "gui" /\ pc["main"] = "mainloop" /\ ~destroyed
    /\ pc' = [pc EXCEPT !["main"] = IF file_path THEN "save_dashboard_image" ELSE "mainloop"]
    /\ UNCHANGED <<app, call, engine, locals, cycle, gui_vars>>

\* the positions of the main thread inside _save_dashboard_image
InExport == {"save_dashboard_image", "save_dashboard_image_net"}

\* the main thread alone: the cycles of start_monitoring and of the Refresh
\* button, and the exports between them
NextExport ==
    \/ start_monitoring
    \/ \E v \in RateLoad, io \in DiskReadings, t \in Times :
           /\ pc["main"] \in {"update_overview", "save_dashboard_image"}
           /\ gui_get_disk_metrics("main", v, io, t)
    \/ \E v \in RateLoad, io \in DiskReadings, t \in Times :
           /\ pc["main"] = "update_disk_tab"
           /\ t \in Later(net_sample.current_time)
           /\ gui_get_disk_metrics("main", v, io, t)
    \/ \E io \in NetReadings, t \in Times :
           /\ pc["main"] \in {"update_overview_net", "update_network_tab", "save_dashboard_image_net"}
           /\ t \in Later(disk_sample.current_time)
           /\ gui_get_network_metrics("main", io, t)
    \/ force_refresh
    \/ \E file_path \in BOOLEAN : export_to_image(file_path)

SpecExport == InitGUI /\ [][NextExport]_vars

\* ------------------------------------------------------------ classifiers
\* rates in MB/s at and above disk_io_warning, far above network_warning
HeavyTraffic == {1000, 1001}

\* a monitor on which a classifier is about to be called
InitClassify ==
    /\ app = "cli"
    /\ pc = [th \in Threads |-> IF th = "main" THEN "run" ELSE "none"]
    /\ prev_disk_io \in DiskReadings
    /\ prev_net_io \in NetReadings
    /\ prev_time \in Times
    /\ health_history = [cpu |-> <<>>, memory |-> <<>>, disk |-> <<>>, temperature |-> <<>>]
    /\ cycle = 0
    /\ cpu = NoCpu /\ mem = NoMem /\ disk = NoDisk /\ net = NoNet /\ battery = NoBattery
    /\ disk_sample = NoDiskSample /\ net_sample = NoNetSample
    /\ status = NoStatus /\ trend = NoTrend
    /\ written_in = [disk |-> 0, net |-> 0, time |-> 0]
    /\ monitoring = FALSE /\ events = <<>> /\ destroyed = FALSE
    /\ \E m \in MetricTypes, v \in Values \cup HeavyTraffic \cup {None} : call = Pending(m, v)

\* classify whose classifier also records the reading in the window of its kind
classify_records_value ==
    /\ call # NoCall
    /\ call.status_text = ""
    /\ call' = [call EXCEPT
                  !.status_and_color = get_status_and_color(call.metric_type, call.value),
                  !.status_text = get_status_text(call.metric_type, call.value),
                  !.status_color = get_status_color(call.metric_type, call.value)]
    /\ health_history' = [health_history EXCEPT !.cpu = Append(@, call.value)]
    /\ UNCHANGED <<app, pc, prev_disk_io, prev_net_io, prev_time, written_in, cycle, locals, gui_vars>>

\* the call of get_status_and_color (CLI) and of get_status_text and
\* get_status_color (GUI) returns: none of the three assigns to an attribute
classify ==
    /\ call # NoCall
    /\ call.status_text = ""
    /\ call' = [call EXCEPT
                  !.status_and_color = get_status_and_color(call.metric_type, call.value),
                  !.status_text = get_status_text(call.metric_type, call.value),
                  !.status_color = get_status_color(call.metric_type, call.value)]
    /\ UNCHANGED <<app, pc, engine, cycle, locals, gui_vars>>

NextClassify == classify

SpecClassify == InitClassify /\ [][NextClassify]_vars

\* a monitor that has seen no traffic, on which a classifier is about to be called
InitMonotone ==
    /\ InitClassify
    /\ prev_disk_io = [read_bytes |-> 0, write_bytes |-> 0]
    /\ prev_net_io = [bytes_sent |-> 0, bytes_recv |-> 0]
    /\ prev_time = 0

\* the classifiers are called once more for the same kind, with the next reading
reclassify(value) ==
    /\ call.status_text # ""
    /\ call.earlier_status_text = ""
    /\ call' = [metric_type |-> call.metric_type, value |-> value,
                status_and_color |-> get_status_and_color(call.metric_type, value),
                status_text |-> get_status_text(call.metric_type, value),
                status_color |-> get_status_color(call.metric_type, value),
                trend |-> "",
                earlier_value |-> call.value,
                earlier_status_and_color |-> call.status_and_color,
                earlier_status_text |-> call.status_text,
                earlier_status_color |-> call.status_color]
    /\ UNCHANGED <<app, pc, engine, cycle, locals, gui_vars>>

NextMonotone ==
    \/ classify
    \/ \E v \in Values \cup {None} : reclassify(v)

SpecMonotone == InitMonotone /\ [][NextMonotone]_vars

\* ------------------------------------------- the periodic loops, failures
\* a read of psutil raises inside get_cpu_metrics (cpu_percent, cpu_freq),
\* get_memory_metrics, get_disk_metrics or get_network_metrics: none of them has a
\* try block, so the exception leaves the collector and display_dashboard; a
\* failure inside get_cpu_temperature or get_battery_metrics is caught there and
\* is the reading None
collector_raises ==
    /\ app = "cli"
    /\ pc["main"] \in {"get_cpu_metrics", "get_memory_metrics", "get_disk_metrics",
                       "get_network_metrics"}
    /\ pc' = [pc EXCEPT !["main"] = "raised"]
    /\ UNCHANGED <<app, call, engine, cycle, locals, gui_vars>>

\* run: the exception is not a KeyboardInterrupt, the only one run catches; the
\* loop and the process end with a traceback
run_uncaught ==
    /\ app = "cli" /\ pc["main"] = "raised"
    /\ pc' = [pc EXCEPT !["main"] = "terminated"]
    /\ UNCHANGED <<app, call, engine, cycle, locals, gui_vars>>

\* the positions of the CLI at which Ctrl-C can arrive
Running == {"run", "get_cpu_metrics", "get_memory_metrics", "get_disk_metrics",
            "get_network_metrics", "get_battery_metrics", "display_dashboard", "sleep"}

\* run, except KeyboardInterrupt: clear_screen, print, sys.exit(0)
keyboard_interrupt ==
    /\ app = "cli" /\ pc["main"] \in Running
    /\ pc' = [pc EXCEPT !["main"] = "stopped"]
    /\ UNCHANGED <<app, call, engine, cycle, locals, gui_vars>>

\* a read of psutil raises inside update_all_tabs (SystemHealthGUI.get_disk_metrics
\* and get_network_metrics have no try block): in the first cycle, which
\* start_monitoring calls from __init__, the exception leaves main() and the
\* process ends, the daemon thread with it; in a cycle the main loop called, Tk
\* reports the exception and the main loop goes on
update_all_tabs_raises ==
    /\ app = "gui" /\ pc["main"] \in InCycle
    /\ pc' = IF cycle = 1
             THEN [pc EXCEPT !["main"] = "terminated", !["monitor"] = "done"]
             ELSE [pc EXCEPT !["main"] = "mainloop"]
    /\ UNCHANGED <<app, call, engine, cycle, locals, gui_vars>>

\* a battery that is there or not
LoopBattery == {None, 8}

\* SystemHealthGUI.__init__ on a machine without traffic
InitQuiet ==
    /\ InitGUI
    /\ prev_disk_io = NoTraffic
    /\ prev_net_io = NoPackets

InitLoop == InitTrend \/ InitQuiet

\* the steps of the monitor thread
MonitorThread ==
    \/ monitor_loop
    \/ monitor_loop_while
    \/ monitor_loop_after
    \/ monitor_loop_sleep

NextLoop ==
    \/ run
    \/ \E v \in Steady, t \in TrendTemps : get_cpu_metrics(v, t)
    \/ \E v \in Steady : get_memory_metrics(v)
    \/ \E v \in Steady : get_disk_metrics(v, NoTraffic, 0)
    \/ get_network_metrics(NoPackets, 0)
    \/ \E v \in LoopBattery : get_battery_metrics(v)
    \/ display_dashboard(0)
    \/ sleep
    \/ collector_raises
    \/ run_uncaught
    \/ keyboard_interrupt
    \/ start_monitoring
    \/ \E th \in Threads, v \in Steady : gui_get_disk_metrics(th, v, NoTraffic, GuiStart)
    \/ \E th \in Threads : gui_get_network_metrics(th, NoPackets, GuiStart)
    \/ run_callback
    \/ force_refresh
    \/ on_closing
    \/ update_all_tabs_raises
    \/ MonitorThread

SpecLoop == InitLoop /\ [][NextLoop]_vars

\* the monitor thread is a thread of its own: it is not held up for ever
SpecLoopFair == SpecLoop /\ WF_vars(MonitorThread)

\* --------------------------------------------------------- either program
Init == InitCLI \/ InitGUI

Next == NextCLI \/ NextGUI

Spec == Init /\ [][Next]_vars

\* ================================================================= claims
Sampled(s) == s.current_time # None

CycleDone == app = "cli" /\ pc["main"] = "sleep"

\* the rate is the quotient delta / time_delta
IsQuotient(rate, delta, time_delta) == rate.den > 0 /\ rate.num * time_delta = delta * rate.den

\* C1: whenever the elapsed time is > 0 and the current counter is lower than the
\* stored previous counter, the reported read, write, upload and download speed
\* is 0; no derived rate is negative in any reachable state.
C1_ResetClamp ==
    /\ Sampled(disk_sample) =>
         /\ disk.read_speed.num >= 0 /\ disk.write_speed.num >= 0
         /\ (disk_sample.time_delta > 0
               /\ disk_sample.current.read_bytes < disk_sample.prior.read_bytes)
            => disk.read_speed = Zero
         /\ (disk_sample.time_delta > 0
               /\ disk_sample.current.write_bytes < disk_sample.prior.write_bytes)
            => disk.write_speed = Zero
    /\ Sampled(net_sample) =>
         /\ net.upload_speed.num >= 0 /\ net.download_speed.num >= 0
         /\ (net_sample.time_delta > 0
               /\ net_sample.current.bytes_sent < net_sample.prior.bytes_sent)
            => net.upload_speed = Zero
         /\ (net_sample.time_delta > 0
               /\ net_sample.current.bytes_recv < net_sample.prior.bytes_recv)
            => net.download_speed = Zero

\* C2: for every elapsed time > 0 and counters with prior <= current, the disk
\* read/write speed and the network upload/download speed of a cycle equal
\* (current - prior) / elapsed exactly, prior being the stored previous counter
\* and elapsed the time since the stored previous timestamp.
C2_ExactRate ==
    /\ (Sampled(disk_sample) /\ disk_sample.time_delta > 0) =>
         /\ disk_sample.prior.read_bytes <= disk_sample.current.read_bytes
            => IsQuotient(disk.read_speed,
                          disk_sample.current.read_bytes - disk_sample.prior.read_bytes,
                          disk_sample.time_delta)
         /\ disk_sample.prior.write_bytes <= disk_sample.current.write_bytes
            => IsQuotient(disk.write_speed,
                          disk_sample.current.write_bytes - disk_sample.prior.write_bytes,
                          disk_sample.time_delta)
    /\ (Sampled(net_sample) /\ net_sample.time_delta > 0) =>
         /\ net_sample.prior.bytes_sent <= net_sample.current.bytes_sent
            => IsQuotient(net.upload_speed,
                          net_sample.current.bytes_sent - net_sample.prior.bytes_sent,
                          net_sample.time_delta)
         /\ net_sample.prior.bytes_recv <= net_sample.current.bytes_recv
            => IsQuotient(net.download_speed,
                          net_sample.current.bytes_recv - net_sample.prior.bytes_recv,
                          net_sample.time_delta)

\* a CLI cycle in which 1 byte was read over 2 ticks (1/2 byte per tick) and
\* bytes were received
C2_Witness ==
    /\ CycleDone
    /\ disk_sample.time_delta = 2
    /\ disk_sample.prior.read_bytes = 0 /\ disk_sample.current.read_bytes = 1
    /\ disk.read_speed = [num |-> 1, den |-> 2]
    /\ net_sample.time_delta > 0
    /\ net_sample.prior.bytes_recv < net_sample.current.bytes_recv
    /\ net.download_speed.num > 0

\* C3: whenever the elapsed time between the stored previous timestamp and the
\* current sample is <= 0, all four derived rates of that cycle are 0, whatever
\* the counter values are.
C3_ZeroWithoutElapsedTime ==
    /\ (Sampled(disk_sample) /\ disk_sample.time_delta <= 0)
       => (disk.read_speed = Zero /\ disk.write_speed = Zero)
    /\ (Sampled(net_sample) /\ net_sample.time_delta <= 0)
       => (net.upload_speed = Zero /\ net.download_speed = Zero)

\* a CLI cycle whose disk sample saw the clock set back and whose network sample
\* saw no time elapsed, while all four counters had moved
C3_Witness ==
    /\ CycleDone
    /\ disk_sample.time_delta < 0
    /\ disk_sample.current.read_bytes > disk_sample.prior.read_bytes
    /\ disk_sample.current.write_bytes < disk_sample.prior.write_bytes
    /\ disk.read_speed = Zero /\ disk.write_speed = Zero
    /\ net_sample.time_delta = 0
    /\ net_sample.current.bytes_sent > net_sample.prior.bytes_sent
    /\ net_sample.current.bytes_recv < net_sample.prior.bytes_recv
    /\ net.upload_speed = Zero /\ net.download_speed = Zero

\* C4: in the CLI monitor, after every completed display_dashboard cycle
\* prev_time is the instant at which the stored prev_disk_io and prev_net_io
\* counters were captured.
C4_PrevTimeIsCaptureTime ==
    CycleDone =>
        /\ prev_disk_io = disk_sample.current /\ prev_net_io = net_sample.current
        /\ prev_time = disk_sample.current_time
        /\ prev_time = net_sample.current_time

\* C5: in the GUI monitor, every sampling cycle overwrites PreviousState with both
\* the just-captured counters and the just-captured timestamp.
C5_GuiCycleStoresTimestamp ==
    (app = "gui" /\ cycle >= 1 /\ pc["main"] = "mainloop") =>
        /\ written_in.disk = cycle
        /\ written_in.net = cycle
        /\ written_in.time = cycle

\* C6: within one sampling cycle every rate computation reads the PreviousState
\* left by an earlier cycle (or by the constructor): no rate is computed against
\* counters that the same cycle has already written.
C6_ReadBeforeWrite ==
    /\ Sampled(disk_sample) => disk_sample.prior_cycle < cycle
    /\ Sampled(net_sample) => net_sample.prior_cycle < cycle

\* C7: in the GUI monitor, at most one thread at a time is inside a sampling
\* cycle (update_all_tabs), in every interleaving of the monitor thread and the
\* main thread.
C7_CyclesSerialized == Cardinality({th \in Threads : pc[th] \in InCycle}) <= 1

\* a manual refresh is inside its cycle while the periodic callback of the live
\* monitor thread waits in the event queue
C7_Witness ==
    /\ app = "gui"
    /\ pc["main"] \in InCycle
    /\ cycle >= 2
    /\ pc["monitor"] = "sleep"
    /\ events # <<>>

ZeroIffNoChange(rate, current, prior, time_delta) ==
    (rate = Zero) <=> (time_delta <= 0 \/ current = prior)

Returned == call.status_text # ""

\* the band of an ascending kind with the given cutoffs
BandAbove(v, caution, warning, critical) ==
    IF v >= critical THEN CRITICAL
    ELSE IF v >= warning THEN WARNING
    ELSE IF v >= caution THEN CAUTION
    ELSE HEALTHY

\* C9: for cpu, memory, disk and temperature and every present value v,
\* get_status_and_color returns CRITICAL if v >= critical cutoff, else WARNING if
\* v >= warning cutoff, else CAUTION if v >= caution cutoff, else HEALTHY, with
\* cutoffs cpu 60/80/90, memory 70/85/95, disk 70/85/95, temperature 70/85/100.
C9_AscendingBands ==
    (Returned /\ call.value # None) =>
        /\ call.metric_type = "cpu"
           => call.status_and_color[1] = BandAbove(call.value, 60, 80, 90)
        /\ call.metric_type = "memory"
           => call.status_and_color[1] = BandAbove(call.value, 70, 85, 95)
        /\ call.metric_type = "disk"
           => call.status_and_color[1] = BandAbove(call.value, 70, 85, 95)
        /\ call.metric_type = "temperature"
           => call.status_and_color[1] = BandAbove(call.value, 70, 85, 100)

\* a temperature equal to its critical cutoff was classified CRITICAL
C9_Witness ==
    /\ Returned
    /\ call.metric_type = "temperature" /\ call.value = 100
    /\ call.status_and_color[1] = CRITICAL

\* the band of the battery
BatteryBand(v) ==
    IF v <= 10 THEN CRITICAL
    ELSE IF v <= 20 THEN WARNING
    ELSE IF v <= 50 THEN CAUTION
    ELSE HEALTHY

\* C10: for battery and every present value v, the classifier (CLI and GUI)
\* returns CRITICAL if v <= 10, else WARNING if v <= 20, else CAUTION if v <= 50,
\* else HEALTHY.
C10_BatteryBands ==
    (Returned /\ call.value # None /\ call.metric_type = "battery") =>
        /\ call.status_and_color[1] = BatteryBand(call.value)
        /\ call.status_text = BatteryBand(call.value)

\* a battery at 8 percent was classified CRITICAL by both classifiers
C10_Witness ==
    /\ Returned
    /\ call.metric_type = "battery" /\ call.value = 8
    /\ call.status_and_color[1] = CRITICAL /\ call.status_text = CRITICAL

\* C11: for every metric kind and every input, get_status_and_color (CLI) and
\* get_status_text (GUI) return UNKNOWN if and only if the value is absent (None).
C11_UnknownIffAbsent ==
    Returned =>
        /\ (call.status_and_color[1] = UNKNOWN) <=> (call.value = None)
        /\ (call.status_text = UNKNOWN) <=> (call.value = None)

\* an absent temperature was classified UNKNOWN by both classifiers: no cutoff
\* was compared
C11_Witness ==
    /\ Returned
    /\ call.metric_type = "temperature" /\ call.value = None
    /\ call.status_and_color = <<UNKNOWN, COLOR_UNKNOWN>> /\ call.status_text = UNKNOWN

\* the severity order HEALTHY < CAUTION < WARNING < CRITICAL
Severity(band) ==
    IF band = HEALTHY THEN 0
    ELSE IF band = CAUTION THEN 1
    ELSE IF band = WARNING THEN 2
    ELSE 3

AscendingTypes == {"cpu", "memory", "disk", "temperature"}

\* C12: for cpu, memory, disk and temperature and any two present values
\* v1 <= v2, the band returned for v2 is not less severe than the band returned
\* for v1 (HEALTHY < CAUTION < WARNING < CRITICAL), in the CLI and in the GUI.
C12_Monotonic ==
    (/\ call.earlier_status_text # ""
     /\ call.metric_type \in AscendingTypes
     /\ call.earlier_value # None /\ call.value # None
     /\ call.earlier_value <= call.value)
    => /\ Severity(call.earlier_status_and_color[1]) <= Severity(call.status_and_color[1])
       /\ Severity(call.earlier_status_text) <= Severity(call.status_text)

\* a memory reading of 69 and then one of 70: HEALTHY, then CAUTION
C12_Witness ==
    /\ call.metric_type = "memory"
    /\ call.earlier_value = 69 /\ call.value = 70
    /\ call.earlier_status_and_color[1] = HEALTHY /\ call.status_and_color[1] = CAUTION
    /\ call.earlier_status_text = HEALTHY /\ call.status_text = CAUTION

\* the four history windows of the CLI monitor
Windows == {"cpu", "memory", "disk", "temperature"}

\* C13: after any number of sampling cycles, each of the four history windows
\* (cpu, memory, disk, temperature) of the CLI monitor holds at most
\* history_max = 5 entries.
C13_HistoryBounded ==
    app = "cli" => \A k \in Windows : Len(health_history[k]) <= 5

\* after the sixth cycle the windows hold five entries, the first sample evicted
C13_Witness ==
    /\ CycleDone /\ cycle = 6
    /\ Len(health_history.cpu) = 5 /\ Len(health_history.temperature) = 5
    /\ Len(health_history.memory) = 5 /\ Len(health_history.disk) = 5
    /\ health_history.cpu = <<50, 50, 50, 50, 70>>

\* the entries of a window that precede its newest one
Preceding(history) == SubSeq(history, 1, Len(history) - 1)

\* the verdict for value against the mean of the entries of window, with a
\* deadband of 10%
VerdictAgainst(window, value) ==
    IF 10 * Len(window) * value > 11 * sum(window) THEN "Increasing"
    ELSE IF 10 * Len(window) * value < 9 * sum(window) THEN "Decreasing"
    ELSE "Stable"

\* C14: when at least 2 samples of a metric kind have been recorded, the trend
\* verdict for a new value compares that value with the mean of up to the 3 most
\* recent history entries preceding it (the newest value excluded): INCREASING
\* if more than 10% above that mean, DECREASING if more than 10% below, STABLE
\* otherwise.
C14_MeanOfPreceding ==
    CycleDone =>
        /\ Len(health_history.cpu) >= 2
           => trend.cpu = VerdictAgainst(last3(Preceding(health_history.cpu)), cpu.average)
        /\ Len(health_history.memory) >= 2
           => trend.memory = VerdictAgainst(last3(Preceding(health_history.memory)), mem.percent)
        /\ Len(health_history.disk) >= 2
           => trend.disk = VerdictAgainst(last3(Preceding(health_history.disk)), disk.percent)
        /\ (cpu.temperature # None /\ Len(health_history.temperature) >= 2)
           => trend.temperature =
                 VerdictAgainst(last3(Preceding(health_history.temperature)), cpu.temperature)

Verdicts == {"Increasing", "Decreasing", "Stable"}

\* C15: the trend of a kind is INSUFFICIENT_DATA whenever fewer than 2 samples of
\* that kind have been recorded, the one just appended counted, and is one of
\* INCREASING, DECREASING, STABLE in every cycle in which 2 or more samples have
\* been recorded and the value is present.
C15_InsufficientBelowTwo ==
    CycleDone =>
        /\ Len(health_history.cpu) < 2 => trend.cpu = "Insufficient data"
        /\ Len(health_history.memory) < 2 => trend.memory = "Insufficient data"
        /\ Len(health_history.disk) < 2 => trend.disk = "Insufficient data"
        /\ Len(health_history.cpu) >= 2 => trend.cpu \in Verdicts
        /\ Len(health_history.memory) >= 2 => trend.memory \in Verdicts
        /\ Len(health_history.disk) >= 2 => trend.disk \in Verdicts
        /\ cpu.temperature # None =>
              IF Len(health_history.temperature) < 2
              THEN trend.temperature = "Insufficient data"
              ELSE trend.temperature \in Verdicts

\* a third cycle with the first temperature reading: the load has a verdict, the
\* temperature has not enough data
C15_Witness ==
    /\ CycleDone /\ cycle = 3
    /\ cpu.temperature = 60 /\ Len(health_history.temperature) = 1
    /\ trend.temperature = "Insufficient data"
    /\ health_history.cpu = <<70, 70, 50>>
    /\ trend.cpu = "Decreasing" /\ trend.memory = "Stable"

\* the load of the scenario has been fed, up to its n-th sample, to a new monitor
Fed(n) == CycleDone /\ cycle = n /\ health_history.cpu = SubSeq(<<50, 55, 58, 70>>, 1, n)

\* C16, as stated: the CPU averages 50, 55, 58, 70 fed through four consecutive
\* cycles yield the bands HEALTHY, HEALTHY, HEALTHY, WARNING and the trend
\* INCREASING at the 4th sample.
C16_ScenarioWarning ==
    /\ Fed(1) => status.cpu = HEALTHY
    /\ Fed(2) => status.cpu = HEALTHY
    /\ Fed(3) => status.cpu = HEALTHY
    /\ Fed(4) => (status.cpu = WARNING /\ trend.cpu = "Increasing")

\* C16, amended: the CPU averages 50, 55, 58, 70 fed through four consecutive
\* cycles yield the bands HEALTHY, HEALTHY, HEALTHY, CAUTION (70 is at or above
\* the caution cutoff 60 and below the warning cutoff 80) and the trend
\* INCREASING at the 4th sample.
C16_ScenarioCaution ==
    /\ Fed(1) => status.cpu = HEALTHY
    /\ Fed(2) => status.cpu = HEALTHY
    /\ Fed(3) => status.cpu = HEALTHY
    /\ Fed(4) => (status.cpu = CAUTION /\ trend.cpu = "Increasing")

\* the fourth cycle of the scenario is done
C16_Witness ==
    /\ Fed(4)
    /\ cpu.average = 70
    /\ status.cpu = CAUTION /\ trend.cpu = "Increasing"

\* the classifier and the trend tracker were called for an absent temperature
AbsentAnalyzed == call.trend # "" /\ call.metric_type = "temperature" /\ call.value = None

C18_FailureCaughtLocally ==
    app = "cli" => pc["main"] # "raised"

\* C19: a cycle that fails as a whole (an exception raised while sampling) does
\* not end the periodic loop: neither the CLI loop (run) nor the GUI loop
\* (monitor_loop, with the main loop that runs its cycles) ends because of it.
C19_LoopSurvivesFailure ==
    /\ pc["main"] # "terminated"
    /\ (app = "gui" /\ pc["monitor"] = "done") => destroyed

\* the stop signal has been given
StopGiven == destroyed \/ pc["main"] = "stopped"

\* C20: once the stop signal is given (on_closing in the GUI, KeyboardInterrupt
\* in the CLI), no further sampling cycle is started and nothing is sampled any
\* more, and the periodic loop terminates: the CLI loop has ended, the monitor
\* thread of the GUI ends, in every interleaving of on_closing with it.
C20_StopTakesEffect ==
    /\ [][StopGiven => UNCHANGED <<cycle, engine>>]_vars
    /\ [][pc["main"] = "stopped" => pc'["main"] = "stopped"]_vars
    /\ (destroyed ~> pc["monitor"] = "done")

\* on_closing ran before the monitor thread had executed its first statement:
\* the thread set monitoring back to True, and its loop has ended all the same
C20_Witness ==
    /\ app = "gui"
    /\ destroyed /\ monitoring
    /\ pc["monitor"] = "done"

\* C21: an export (export_to_jpeg / export_to_png, with _save_dashboard_image)
\* leaves prev_disk_io, prev_net_io and prev_time as they were: no step taken
\* inside _save_dashboard_image changes them. The code breaks this: the collectors
\* that _save_dashboard_image calls store the counters they read.
C21_ExportLeavesEngine ==
    [][pc["main"] \in InExport => UNCHANGED <<prev_disk_io, prev_net_io, prev_time>>]_vars

GrowsOrStays(kind) ==
    LET before == health_history[kind]
        after == health_history'[kind]
    IN  \/ after = before
        \/ /\ Len(before) < history_max
           /\ Len(after) = Len(before) + 1
           /\ SubSeq(after, 1, Len(before)) = before
        \/ /\ Len(before) = history_max
           /\ Len(after) = history_max
           /\ SubSeq(after, 1, history_max - 1) = Tail(before)

\* C23: the windows are independent. The cpu and the temperature window change
\* only in get_cpu_metrics, the memory window only in get_memory_metrics, the disk
\* window only in get_disk_metrics, so the append for one kind leaves the windows
\* of the other kinds as they were; and a window loses an entry only as the
\* oldest one of a full window, when a new one arrives.
C23_WindowsIndependent ==
    [][/\ pc["main"] # "get_cpu_metrics"
           => UNCHANGED <<health_history.cpu, health_history.temperature>>
       /\ pc["main"] # "get_memory_metrics" => UNCHANGED health_history.memory
       /\ pc["main"] # "get_disk_metrics" => UNCHANGED health_history.disk
       /\ pc["main"] = "get_cpu_metrics"
           => UNCHANGED <<health_history.memory, health_history.disk>>
       /\ \A kind \in Windows : GrowsOrStays(kind)]_vars

\* the sixth cycle has appended to the full cpu and memory windows, not yet to
\* the disk window; one temperature reading was present
C23_Witness ==
    /\ app = "cli" /\ pc["main"] = "get_disk_metrics" /\ cycle = 6
    /\ health_history.cpu = <<50, 55, 58, 70, 70>>
    /\ health_history.temperature = <<60>>
    /\ health_history.memory = <<50, 50, 50, 50, 50>>
    /\ health_history.disk = <<50, 50, 50, 50, 50>>

\* a window that received v: v is its newest entry, and its oldest entry went
\* when it was full
Fifo(window, v) ==
    IF Len(window) < history_max THEN Append(window, v) ELSE Append(Tail(window), v)

\* the kinds that have a reading in every cycle
Loads == {"cpu", "memory", "disk"}

\* C24: every completed cycle appends one value to each of the cpu, memory and
\* disk windows, first in first out. The collector of a kind turns the window w
\* into Fifo(w, reading of the cycle), and no other step of the cycle touches that
\* window; so after n completed cycles the window has min(n, 5) entries, the
\* last min(n, 5) readings in the order of their arrival.
C24_OneAppendPerCycleFifo ==
    /\ [][/\ pc["main"] = "get_cpu_metrics"
              => health_history'.cpu = Fifo(health_history.cpu, cpu'.average)
          /\ pc["main"] = "get_memory_metrics"
              => health_history'.memory = Fifo(health_history.memory, mem'.percent)
          /\ pc["main"] = "get_disk_metrics"
              => health_history'.disk = Fifo(health_history.disk, disk'.percent)
          /\ pc["main"] \notin {"get_cpu_metrics", "get_memory_metrics", "get_disk_metrics"}
              => \A kind \in Loads : UNCHANGED health_history[kind]]_vars
    /\ [](CycleDone => /\ \A kind \in Loads : Len(health_history[kind]) = min(cycle, history_max)
                       /\ health_history.cpu[Len(health_history.cpu)] = cpu.average
                       /\ health_history.memory[Len(health_history.memory)] = mem.percent
                       /\ health_history.disk[Len(health_history.disk)] = disk.percent)

\* six cycles done: the readings of the first cycle (50, 80, 90) are gone
C24_Witness ==
    /\ CycleDone /\ cycle = 6
    /\ health_history.cpu = <<70, 50, 70, 70, 50>>
    /\ health_history.memory = <<40, 80, 80, 40, 80>>
    /\ health_history.disk = <<30, 30, 90, 30, 90>>

\* C25: the deadband is strict on both sides. With the mean s / n that
\* analyze_trend takes (the last three entries of the window, the current value
\* among them), the CPU verdict of a completed cycle is INCREASING exactly when
\* the value is more than 1.1 s / n, DECREASING exactly when it is less than
\* 0.9 s / n, and STABLE otherwise, on the edges too. The code breaks this on the
\* lower edge: the double 50 / 3 times the double 0.9 is more than 15.
C25_DeadbandStrict ==
    CycleDone /\ cycle >= 2 =>
        LET s == sum(last3(health_history.cpu))
            n == min(3, Len(health_history.cpu))
        IN  trend.cpu = IF 10 * n * cpu.average > 11 * s THEN "Increasing"
                        ELSE IF 10 * n * cpu.average < 9 * s THEN "Decreasing"
                        ELSE "Stable"

\* C26: there is no way back to awaiting the first sample. Every cycle completed
\* after the first one has a verdict other than "Insufficient data" for cpu,
\* memory and disk, and a window of these kinds that holds two entries never
\* holds fewer again.
C26_NoWayBack ==
    /\ [](CycleDone /\ cycle >= 2 =>
             \A kind \in Loads : /\ trend[kind] \in Verdicts
                                  /\ Len(health_history[kind]) >= 2)
    /\ [][\A kind \in Loads :
             Len(health_history[kind]) >= 2 => Len(health_history'[kind]) >= 2]_vars

\* the seventh entry has arrived in a window that was full: verdicts go on
C26_Witness ==
    /\ CycleDone /\ cycle = 6
    /\ health_history.cpu = <<55, 58, 70, 50, 70>>
    /\ trend.cpu = "Increasing" /\ trend.memory = "Stable" /\ trend.disk = "Stable"

\* the band a colour of the GUI stands for
BandOfColour(colour) ==
    CASE colour = COLOR_CRITICAL -> CRITICAL
      [] colour = COLOR_WARNING -> WARNING
      [] colour = COLOR_CAUTION -> CAUTION
      [] colour = COLOR_HEALTHY -> HEALTHY
      [] colour = COLOR_UNKNOWN -> UNKNOWN
      [] OTHER -> ""

\* the kinds every classifier is meant to know
ClassifiedTypes == {"cpu", "memory", "disk", "temperature", "battery"}

\* C27: the three classifiers agree. For a kind among cpu, memory, disk,
\* temperature and battery and any value, present or absent, the band of the
\* CLI get_status_and_color, the band of the GUI get_status_text and the band of
\* the colour of the GUI get_status_color are one band. The code breaks this:
\* get_status_text has no branch for temperature.
C27_ClassifiersAgree ==
    Returned /\ call.metric_type \in ClassifiedTypes =>
        /\ call.status_text = call.status_and_color[1]
        /\ BandOfColour(call.status_color) = call.status_and_color[1]

\* C28: a cycle without a temperature reading leaves the temperature window as
\* it was, and the cpu window still receives the CPU average of the cycle; so
\* the temperature window is never longer than the cpu window, and every entry
\* of it is a reading that was present.
C28_AbsentTemperatureSkipped ==
    /\ [][pc["main"] = "get_cpu_metrics" /\ cpu'.temperature = None
            => /\ UNCHANGED health_history.temperature
               /\ health_history'.cpu = Fifo(health_history.cpu, cpu'.average)]_vars
    /\ [](/\ Len(health_history.temperature) <= Len(health_history.cpu)
          /\ \A i \in 1..Len(health_history.temperature) : health_history.temperature[i] # None)

\* the second cycle had no temperature reading: one entry against two
C28_Witness ==
    /\ app = "cli" /\ pc["main"] = "get_memory_metrics" /\ cycle = 2
    /\ cpu = [average |-> 55, temperature |-> None]
    /\ health_history.temperature = <<60>>
    /\ health_history.cpu = <<50, 55>>

\* C29: for a kind outside cpu, memory, disk, temperature and battery the CLI
\* classifier returns HEALTHY for every value that is present, however large:
\* the disk_io_warning and network_warning entries of THRESHOLDS are not applied.
C29_OtherKindsHealthy ==
    Returned /\ call.metric_type \notin ClassifiedTypes /\ call.value # None =>
        call.status_and_color = <<HEALTHY, COLOR_HEALTHY>>

\* a disk rate above disk_io_warning, classified HEALTHY
C29_Witness ==
    /\ Returned /\ call.metric_type = "disk_io" /\ call.value = 1001
    /\ call.value > THRESHOLDS.disk_io_warning
    /\ call.status_and_color[1] = HEALTHY

====
